---- MODULE Spec2Model ----
(***************************************************************************)
(* A model of streamlit_app.py: the shared memo store (load_memos,         *)
(* save_memos and the submit handler run by concurrent sessions), the      *)
(* Lottie loader's retry loop, the sidebar year range with the filtered    *)
(* tables and summary cards, and the quiz scoring.                         *)
(***************************************************************************)
EXTENDS Integers, Sequences, FiniteSets, TLC

VARIABLES
    \* ---- memo store (lines 78-91, 211-230)
    live,          \* the sessions that are connected
    file,          \* memos.json: [exists, bytes]
    pc,            \* per session: position of its script run in the memo section
    input,         \* per session: the widget values its running click handler read
    all_memos,     \* per session: the handler's local list (line 219-221)
    memos_list,    \* per session: what load_memos() gave its script run at line 230
    raised,        \* per session: its last script run ended in an uncaught exception
    now,           \* datetime.now(), as a counter
    started,       \* number of valid submissions begun
    \* history of the memo store, read by the properties only
    atClick,       \* per session: memos.json as it was when its running handler began
    before,        \* per session: memos.json as it was when its running save opened it
    submitted,     \* the records in the order line 220 built them
    racing,        \* per session: its last submission had loaded, and not yet begun to
                   \*   save, at a moment when another's had too
    torn,          \* per session: its last save was open while another's was
    lastClose,     \* the session whose save_memos finished last
    \* ---- load_lottieurl (lines 65-75, 144-146)
    lpc, url, attempt, events, lottie, cache,
    \* ---- the data part of one session's script run (lines 95-133)
    rpc, climate_raw, unemployment_df, year_bounds, year_range,
    filtered_unemployment, filtered_climate, cards,
    \* ---- the quiz of one session's script run (lines 148-204)
    qpc, choice, shown, prevShown

memoVars   == <<live, file, pc, input, all_memos, memos_list, raised, now, started,
                atClick, before, submitted, racing, torn, lastClose>>
lottieVars == <<lpc, url, attempt, events, lottie, cache>>
dataVars   == <<rpc, climate_raw, unemployment_df, year_bounds, year_range,
                filtered_unemployment, filtered_climate, cards>>
quizVars   == <<qpc, choice, shown, prevShown>>
vars == <<memoVars, lottieVars, dataVars, quizVars>>

----------------------------------------------------------------------------
(* Bounds of the model *)

\* valid submissions begun in one behaviour
MaxSubmits == 3

Sessions == {"s1", "s2"}

----------------------------------------------------------------------------
(* Text and JSON.  A str is a sequence of characters; the file holds the   *)
(* characters json.dump wrote.                                             *)

Names  == {<<>>, <<" ">>, <<"a", "b">>}
Memos  == {<<>>, <<"m">>}
Colors == {"#FFFACD"}

\* str(datetime.now()) for the n-th reading of the clock
Digits == <<"1", "2", "3", "4", "5", "6", "7", "8", "9">>
StrNow(n) == <<"T", Digits[n]>>

\* Python truthiness of a str: non-empty (whitespace is not stripped)
Truthy(s) == Len(s) > 0

RECURSIVE Concat(_)
Concat(ss) == IF ss = <<>> THEN <<>> ELSE Head(ss) \o Concat(Tail(ss))

DumpRec(r) ==
    <<"{">> \o r.name \o <<",">> \o r.memo \o <<",", r.color, ",">> \o r.timestamp \o <<"}">>

\* json.dump(memos): the characters of the whole list
Dump(memos) ==
    <<"[">> \o Concat([i \in 1..Len(memos) |-> DumpRec(memos[i])]) \o <<"]">>

ParseError == [ok |-> FALSE, val |-> <<>>]

\* index of the first c in s at or after i, or 0
RECURSIVE Find(_, _, _)
Find(s, c, i) ==
    IF i > Len(s) THEN 0
    ELSE IF s[i] = c THEN i
    ELSE Find(s, c, i + 1)

\* the object between s[i] = "{" and s[j] = "}"
ParseRec(s, i, j) ==
    LET body == SubSeq(s, i + 1, j - 1)
        k1 == Find(body, ",", 1)
        k2 == IF k1 = 0 THEN 0 ELSE Find(body, ",", k1 + 1)
        k3 == IF k2 = 0 THEN 0 ELSE Find(body, ",", k2 + 1)
    IN  IF k3 = 0 \/ k3 # k2 + 2 \/ Find(body, ",", k3 + 1) # 0
           \/ Find(body, "{", 1) # 0 \/ Find(body, "[", 1) # 0
           \/ Find(body, "]", 1) # 0 \/ Len(body) <= k3
        THEN ParseError
        ELSE [ok |-> TRUE,
              val |-> <<[name |-> SubSeq(body, 1, k1 - 1),
                         memo |-> SubSeq(body, k1 + 1, k2 - 1),
                         color |-> body[k2 + 1],
                         timestamp |-> SubSeq(body, k3 + 1, Len(body))]>>]

\* the objects from s[i] up to the closing "]", which must end the text
RECURSIVE ParseRecs(_, _)
ParseRecs(s, i) ==
    IF i > Len(s) THEN ParseError
    ELSE IF s[i] = "]" THEN (IF i = Len(s) THEN [ok |-> TRUE, val |-> <<>>] ELSE ParseError)
    ELSE IF s[i] # "{" THEN ParseError
    ELSE LET j == Find(s, "}", i) IN
         IF j = 0 THEN ParseError
         ELSE LET r == ParseRec(s, i, j)
                  rest == ParseRecs(s, j + 1)
              IN  IF r.ok /\ rest.ok
                  THEN [ok |-> TRUE, val |-> r.val \o rest.val]
                  ELSE ParseError

\* json.load(f): the list, or JSONDecodeError (empty text, torn text, extra data)
JsonLoad(s) ==
    IF Len(s) = 0 \/ s[1] # "[" THEN ParseError ELSE ParseRecs(s, 2)

----------------------------------------------------------------------------------------------------------------------------------------
(* The memo store *)

Missing == [exists |-> FALSE, bytes |-> <<>>]

\* load_memos(): [] when memos.json does not exist; any other failure of the
\* read (JSONDecodeError) is not caught
load_memos(f) ==
    IF ~f.exists THEN [ok |-> TRUE, val |-> <<>>] ELSE JsonLoad(f.bytes)

\* open(MEMO_FILE, "w"): creates the file or truncates it to nothing
OpenW(f) == [exists |-> TRUE, bytes |-> <<>>]

\* the buffered text written at offset 0 when the with-block closes the file:
\* it replaces the first Len(text) characters and keeps whatever lies beyond
WriteAt0(text, f) ==
    [exists |-> TRUE, bytes |-> text \o SubSeq(f.bytes, Len(text) + 1, Len(f.bytes))]

\* list.append(rec) in the place of list.insert(0, rec)
Insert0_Append(rec, memos) == Append(memos, rec)

\* list.insert(0, rec)
Insert0(rec, memos) == <<rec>> \o memos

NotSpace(ch) == ch # " "

\* `if name.strip() and memo.strip()` in the place of `if name and memo`
Valid_Stripped(in) ==
    Truthy(SelectSeq(in.name, NotSpace)) /\ Truthy(SelectSeq(in.memo, NotSpace))

\* `if name and memo`
Valid(in) == Truthy(in.name) /\ Truthy(in.memo)

NoInput == [clicked |-> FALSE, name |-> <<>>, memo |-> <<>>, color |-> "#FFFACD"]

NewRecord(in, t) ==
    [name |-> in.name, memo |-> in.memo, color |-> in.color, timestamp |-> StrNow(t)]

Others(s) == live \ {s}

\* a script run that has not reached line 230
NotLoaded == [ok |-> FALSE, val |-> <<>>]

MemoIdle ==
    /\ file = Missing
    /\ pc = [s \in Sessions |-> "idle"]
    /\ input = [s \in Sessions |-> NoInput]
    /\ atClick = [s \in Sessions |-> Missing]
    /\ before = [s \in Sessions |-> Missing]
    /\ all_memos = [s \in Sessions |-> <<>>]
    /\ memos_list = [s \in Sessions |-> NotLoaded]
    /\ raised = [s \in Sessions |-> FALSE]
    /\ racing = [s \in Sessions |-> FALSE]
    /\ torn = [s \in Sessions |-> FALSE]
    /\ lastClose = "none"
    /\ now = 1
    /\ started = 0
    /\ submitted = <<>>

\* line 217-218, 225-226: the button click starts a script run that reads the
\* widgets; an empty name or memo only warns and the run goes on to line 230
Submit(s) ==
    /\ pc[s] = "idle"
    /\ \E n \in Names, m \in Memos, c \in Colors :
          LET in == [clicked |-> TRUE, name |-> n, memo |-> m, color |-> c] IN
          /\ Valid(in) => started < MaxSubmits
          /\ input' = [input EXCEPT ![s] = in]
          /\ pc' = [pc EXCEPT ![s] = IF Valid(in) THEN "load" ELSE "render"]
          /\ started' = IF Valid(in) THEN started + 1 ELSE started
    /\ atClick' = [atClick EXCEPT ![s] = file]
    /\ raised' = [raised EXCEPT ![s] = FALSE]
    /\ all_memos' = [all_memos EXCEPT ![s] = <<>>]
    /\ memos_list' = [memos_list EXCEPT ![s] = NotLoaded]
    /\ racing' = [racing EXCEPT ![s] = FALSE]
    /\ torn' = [torn EXCEPT ![s] = FALSE]
    /\ UNCHANGED <<live, file, before, now, submitted, lastClose>>
    /\ UNCHANGED <<lottieVars, dataVars, quizVars>>

\* line 219-220: load_memos(), then insert the new record at the front; a
\* JSONDecodeError from load_memos ends the script run
SubmitLoad(s) ==
    /\ pc[s] = "load"
    /\ LET r == load_memos(file)
           rec == NewRecord(input[s], now)
           peers == {t \in Others(s) : pc[t] = "open"}
       IN  IF r.ok
           THEN /\ all_memos' = [all_memos EXCEPT ![s] = Insert0(rec, r.val)]
                /\ now' = now + 1
                /\ submitted' = Append(submitted, rec)
                /\ racing' = [t \in Sessions |->
                                IF peers # {} /\ t \in peers \cup {s} THEN TRUE ELSE racing[t]]
                /\ pc' = [pc EXCEPT ![s] = "open"]
                /\ UNCHANGED <<raised, input, atClick>>
           ELSE /\ raised' = [raised EXCEPT ![s] = TRUE]
                /\ pc' = [pc EXCEPT ![s] = "idle"]
                /\ input' = [input EXCEPT ![s] = NoInput]
                /\ atClick' = [atClick EXCEPT ![s] = Missing]
                /\ UNCHANGED <<all_memos, now, submitted, racing>>
    /\ UNCHANGED <<live, file, before, memos_list, started, torn, lastClose>>
    /\ UNCHANGED <<lottieVars, dataVars, quizVars>>

\* line 90: save_memos opens the file for writing
SaveOpen(s) ==
    /\ pc[s] = "open"
    /\ before' = [before EXCEPT ![s] = file]
    /\ file' = OpenW(file)
    /\ torn' = [t \in Sessions |->
                  IF \E w \in Others(s) : pc[w] = "write"
                  THEN (t = s \/ (t \in Others(s) /\ pc[t] = "write") \/ torn[t])
                  ELSE torn[t]]
    /\ pc' = [pc EXCEPT ![s] = "write"]
    /\ UNCHANGED <<live, input, atClick, all_memos, memos_list, raised, racing, lastClose,
                   now, started, submitted>>
    /\ UNCHANGED <<lottieVars, dataVars, quizVars>>

\* line 91 and the end of the with-block: the text reaches the file; then
\* line 222-224, st.rerun() starts the script again
SaveClose(s) ==
    /\ pc[s] = "write"
    /\ file' = WriteAt0(Dump(all_memos[s]), file)
    /\ lastClose' = s
    /\ before' = [before EXCEPT ![s] = Missing]
    /\ pc' = [pc EXCEPT ![s] = "render"]
    /\ UNCHANGED <<live, input, atClick, all_memos, memos_list, raised, racing, torn,
                   now, started, submitted>>
    /\ UNCHANGED <<lottieVars, dataVars, quizVars>>

\* line 230: memos_list = load_memos(); the run ends a few lines below, or
\* here with the JSONDecodeError
RenderMemos(s) ==
    /\ pc[s] = "render"
    /\ memos_list' = [memos_list EXCEPT ![s] = load_memos(file)]
    /\ raised' = [raised EXCEPT ![s] = ~load_memos(file).ok]
    /\ input' = [input EXCEPT ![s] = NoInput]
    /\ atClick' = [atClick EXCEPT ![s] = Missing]
    /\ pc' = [pc EXCEPT ![s] = "idle"]
    /\ UNCHANGED <<live, file, before, all_memos, racing, torn, lastClose,
                   now, started, submitted>>
    /\ UNCHANGED <<lottieVars, dataVars, quizVars>>

\* any other interaction (or a page load) runs the script again
Rerun(s) ==
    /\ pc[s] = "idle"
    /\ pc' = [pc EXCEPT ![s] = "render"]
    /\ raised' = [raised EXCEPT ![s] = FALSE]
    /\ memos_list' = [memos_list EXCEPT ![s] = NotLoaded]
    /\ UNCHANGED <<live, file, input, atClick, before, all_memos, racing, torn,
                   lastClose, now, started, submitted>>
    /\ UNCHANGED <<lottieVars, dataVars, quizVars>>

MemoNext ==
    \/ \E s \in live : Submit(s)
    \/ \E s \in live : SubmitLoad(s)
    \/ \E s \in live : SaveOpen(s)
    \/ \E s \in live : SaveClose(s)
    \/ \E s \in live : RenderMemos(s)
    \/ \E s \in live : Rerun(s)

----------------
(* load_lottieurl *)

\* range(3)
MaxAttempts == 3

Urls == <<"study", "activity", "career">>

\* what one requests.get(url, timeout=15) followed by r.json() can do:
\*   "exc"     requests.get raises a RequestException (connection error, timeout)
\*   "404","500"  a response whose status is not 200
\*   "200json" status 200 and r.json() parses the body
\*   "200bad"  status 200 and r.json() raises requests' JSONDecodeError,
\*             which is a RequestException
Outcomes == {"exc", "404", "500", "200json", "200bad"}

\* line 71: r.status_code == 200
Status200(o) == o \in {"200json", "200bad"}

\* a return on status 200 whatever r.json() does
Returns_AnyBody(o) == Status200(o)

\* line 71-72: the attempt returns r.json()
Returns(o) == Status200(o) /\ o = "200json"

\* line 73: the attempt ends in the except clause
Caught(o) == o = "exc" \/ (Status200(o) /\ o = "200bad")

LottieIdle ==
    /\ lpc = "call"
    /\ url = 1
    /\ attempt = 0
    /\ events = <<>>
    /\ lottie = [u \in 1..Len(Urls) |-> "unset"]
    /\ cache = [u \in 1..Len(Urls) |-> "uncached"]

\* line 65, 144-146: the call; st.cache_data answers a repeated url from its cache
LottieCall ==
    /\ lpc = "call"
    /\ events' = <<>>
    /\ attempt' = 0
    /\ IF cache[url] # "uncached"
       THEN /\ lottie' = [lottie EXCEPT ![url] = cache[url]]
            /\ lpc' = "hit"
       ELSE /\ lottie' = [lottie EXCEPT ![url] = "unset"]
            /\ lpc' = "get"
    /\ UNCHANGED <<url, cache>>
    /\ UNCHANGED <<memoVars, dataVars, quizVars>>

\* line 69-73: one pass of the loop body up to the return or the except clause
Get ==
    /\ lpc = "get"
    /\ attempt < MaxAttempts
    /\ \E o \in Outcomes :
          /\ events' = Append(events, o)
          /\ IF Returns(o)
             THEN /\ lottie' = [lottie EXCEPT ![url] = "json"]
                  /\ cache' = [cache EXCEPT ![url] = "json"]
                  /\ lpc' = "ret"
                  /\ UNCHANGED attempt
             ELSE /\ lpc' = IF Caught(o) THEN "sleep" ELSE "get"
                  /\ attempt' = IF Caught(o) THEN attempt ELSE attempt + 1
                  /\ UNCHANGED <<lottie, cache>>
    /\ UNCHANGED url
    /\ UNCHANGED <<memoVars, dataVars, quizVars>>

\* line 74: time.sleep(1), then the next pass
Sleep ==
    /\ lpc = "sleep"
    /\ events' = Append(events, "sleep")
    /\ attempt' = attempt + 1
    /\ lpc' = "get"
    /\ UNCHANGED <<url, lottie, cache>>
    /\ UNCHANGED <<memoVars, dataVars, quizVars>>

\* line 75: return None
GiveUp ==
    /\ lpc = "get"
    /\ attempt = MaxAttempts
    /\ lottie' = [lottie EXCEPT ![url] = "None"]
    /\ cache' = [cache EXCEPT ![url] = "None"]
    /\ lpc' = "ret"
    /\ UNCHANGED <<url, attempt, events>>
    /\ UNCHANGED <<memoVars, dataVars, quizVars>>

\* the script goes on to the next call (145, 146), or a later run starts at 144
LottieContinue ==
    /\ lpc \in {"ret", "hit"}
    /\ url' = IF url = Len(Urls) THEN 1 ELSE url + 1
    /\ lpc' = "call"
    /\ UNCHANGED <<attempt, events, lottie, cache>>
    /\ UNCHANGED <<memoVars, dataVars, quizVars>>

LottieNext ==
    \/ LottieCall
    \/ Get
    \/ Sleep
    \/ GiveUp
    \/ LottieContinue

----------------------------------------------------------------------------
(* Tables.  A table is the sequence of its rows' years, in row order; the  *)
(* rows of one table have distinct years.                                  *)

\* line 60: the years of load_user_employment_data()
SampleYears == <<2017, 2018, 2019, 2020, 2021, 2022, 2023, 2024>>

\* line 110: the range used when no year is known
FallbackMin == 2017
FallbackMax == 2024

Range(a, b) == [i \in 1..(b - a + 1) |-> a + i - 1]

\* fetch_gistemp_csv(): empty on any failure, else consecutive years up to the
\* last year whose 31 December is not after today
ClimateTables ==
    {<<>>} \cup {Range(a, b) : a \in {2016, 2018, 2022}, b \in {2023, 2024, 2025}}

RECURSIVE Ascending(_)
Ascending(S) ==
    IF S = {} THEN <<>>
    ELSE LET m == CHOOSE x \in S : \A y \in S : x <= y
         IN  <<m>> \o Ascending(S \ {m})

\* process_uploaded_employment_data(): empty without a file or on a parse
\* error, else the rows of the sheet
EmploymentTables == {Ascending(S) : S \in SUBSET {2019, 2022, 2023}}

YearsOf(t) == {t[i] : i \in 1..Len(t)}

SetMin(S) == CHOOSE x \in S : \A y \in S : x <= y
SetMax(S) == CHOOSE x \in S : \A y \in S : x >= y

\* line 105-108: the column '년도' exists in the sample table only; the
\* uploaded table names its year column '연도', so selecting '년도' from it
\* raises KeyError
SidebarRaises(unemp) == unemp # <<>>

\* line 105-110 when no KeyError is raised
YearBounds(unemp) ==
    LET all_years == YearsOf(SampleYears) \cup (IF unemp # <<>> THEN YearsOf(unemp) ELSE {})
    IN  IF Cardinality(all_years) > 0
        THEN <<SetMin(all_years), SetMax(all_years)>>
        ELSE <<FallbackMin, FallbackMax>>

\* the rows of t whose year is in lo..hi, in row order
RECURSIVE FilterYears(_, _, _)
FilterYears(t, lo, hi) ==
    IF t = <<>> THEN <<>>
    ELSE IF Head(t) >= lo /\ Head(t) <= hi
         THEN <<Head(t)>> \o FilterYears(Tail(t), lo, hi)
         ELSE FilterYears(Tail(t), lo, hi)

\* line 119, 120: df[(df["연도"] >= year_range[0]) & (df["연도"] <= year_range[1])]
\* when df is not empty, else an empty table
filtered(df, yr) == IF df # <<>> THEN FilterYears(df, yr[1], yr[2]) ELSE <<>>

\* line 125-126
latest_unemployment(fu) == fu[Len(fu)]
prev_unemployment(fu) == IF Len(fu) > 1 THEN fu[Len(fu) - 1] ELSE latest_unemployment(fu)

\* line 127: the last row of year_range[1] when there is one, else the last row
latest_climate(fc, yr) ==
    LET at == FilterYears(fc, yr[2], yr[2])
    IN  IF at # <<>> THEN at[Len(at)] ELSE fc[Len(fc)]

\* line 128: the last row of the year before year_range[1] when there is one,
\* else the latest row
prev_climate(fc, yr) ==
    LET at == FilterYears(fc, yr[2] - 1, yr[2] - 1)
    IN  IF (yr[2] - 1) \in YearsOf(fc) THEN at[Len(at)] ELSE latest_climate(fc, yr)

NoCards == [shown |-> FALSE, latest_u |-> 0, prev_u |-> 0, latest_c |-> 0, prev_c |-> 0]

----------------------------------------------------------------------------
(* The quiz *)

EduOptions      == {"carbon_ai_modelling", "combustion_engine_research"}
ActivityOptions == {"renewable_policy_debate_club", "classic_literature_club"}
CareerOptions   == {"energy_it_startup", "oil_refiner"}

Choices == [edu : EduOptions, activity : ActivityOptions, career : CareerOptions]

\* line 163
base_score == 50
base_co2 == 0

\* the contribution of another variant of the quiz
score_edu_15(c) == IF c.edu = "carbon_ai_modelling" THEN 15 ELSE 5

\* line 164-167
score_edu(c) == IF c.edu = "carbon_ai_modelling" THEN 25 ELSE 5
co2_edu(c)   == IF c.edu = "carbon_ai_modelling" THEN -15 ELSE 5
skills_edu(c) ==
    IF c.edu = "carbon_ai_modelling" THEN {"ai_ml", "data_analysis"} ELSE {"mechanical_engineering"}

\* line 168-171
score_activity(c) == IF c.activity = "renewable_policy_debate_club" THEN 15 ELSE 5
co2_activity(c)   == IF c.activity = "renewable_policy_debate_club" THEN -10 ELSE 0
skills_activity(c) ==
    IF c.activity = "renewable_policy_debate_club"
    THEN {"policy", "debate"} ELSE {"humanities"}

\* line 172-175
score_career(c) == IF c.career = "energy_it_startup" THEN 20 ELSE 10
co2_career(c)   == IF c.career = "energy_it_startup" THEN -10 ELSE 5
skills_career(c) ==
    IF c.career = "energy_it_startup"
    THEN {"field_experience", "problem_solving"} ELSE {"corporate_process"}

\* round() of an int is that int
Round(x) == x

\* line 176, 178, 179
final_score(c) == Round(base_score + score_edu(c) + score_activity(c) + score_career(c))
final_co2(c)   == Round(base_co2 + co2_edu(c) + co2_activity(c) + co2_career(c))
final_skills(c) == skills_edu(c) \cup skills_activity(c) \cup skills_career(c)

\* the two upper messages exchanged
Tier_Exchanged(score) ==
    IF score >= 100 THEN "Promising"
    ELSE IF score >= 75 THEN "Top"
    ELSE "NeedsGrowth"

\* line 199-204
Tier(score) ==
    IF score >= 100 THEN "Top"
    ELSE IF score >= 75 THEN "Promising"
    ELSE "NeedsGrowth"

NotShown ==
    [rendered |-> FALSE,
     choice |-> [edu |-> "carbon_ai_modelling", activity |-> "renewable_policy_debate_club",
                 career |-> "energy_it_startup"],
     score |-> 0, co2 |-> 0, skills |-> {}, tier |-> "NeedsGrowth"]

Outcome(c) ==
    [rendered |-> TRUE, choice |-> c, score |-> final_score(c), co2 |-> final_co2(c),
     skills |-> final_skills(c), tier |-> Tier(final_score(c))]

----------------------------------------------------------------------------------------------------------------------------------------
(* The data part of one session's script run *)

Intervals(b) == {<<lo, hi>> \in (b[1]..b[2]) \X (b[1]..b[2]) : lo <= hi}

DataIdle ==
    /\ rpc = "sidebar"
    /\ climate_raw = <<>>
    /\ unemployment_df = <<>>
    /\ year_bounds = <<FallbackMin, FallbackMax>>
    /\ year_range = <<FallbackMin, FallbackMax>>
    /\ filtered_unemployment = <<>>
    /\ filtered_climate = <<>>
    /\ cards = NoCards

\* line 102-110: the upload is parsed, then the years are gathered
Sidebar ==
    /\ rpc = "sidebar"
    /\ IF SidebarRaises(unemployment_df)
       THEN /\ rpc' = "error"
            /\ UNCHANGED year_bounds
       ELSE /\ year_bounds' = YearBounds(unemployment_df)
            /\ rpc' = "slider"
    /\ UNCHANGED <<climate_raw, unemployment_df, year_range, filtered_unemployment,
                   filtered_climate, cards>>
    /\ UNCHANGED <<memoVars, lottieVars, quizVars>>

\* line 111: the slider gives the interval the user holds it at
Slider ==
    /\ rpc = "slider"
    /\ year_range' \in Intervals(year_bounds)
    /\ rpc' = "filter"
    /\ UNCHANGED <<climate_raw, unemployment_df, year_bounds, filtered_unemployment,
                   filtered_climate, cards>>
    /\ UNCHANGED <<memoVars, lottieVars, quizVars>>

\* line 119-120
Filter ==
    /\ rpc = "filter"
    /\ filtered_unemployment' = filtered(unemployment_df, year_range)
    /\ filtered_climate' = filtered(climate_raw, year_range)
    /\ rpc' = "cards"
    /\ UNCHANGED <<climate_raw, unemployment_df, year_bounds, year_range, cards>>
    /\ UNCHANGED <<memoVars, lottieVars, quizVars>>

\* line 123-133
Cards ==
    /\ rpc = "cards"
    /\ cards' = IF filtered_unemployment # <<>> /\ filtered_climate # <<>>
                THEN [shown |-> TRUE,
                      latest_u |-> latest_unemployment(filtered_unemployment),
                      prev_u |-> prev_unemployment(filtered_unemployment),
                      latest_c |-> latest_climate(filtered_climate, year_range),
                      prev_c |-> prev_climate(filtered_climate, year_range)]
                ELSE NoCards
    /\ rpc' = "done"
    /\ UNCHANGED <<climate_raw, unemployment_df, year_bounds, year_range,
                   filtered_unemployment, filtered_climate>>
    /\ UNCHANGED <<memoVars, lottieVars, quizVars>>

\* the user uploads another file or removes it: the script runs again
Upload ==
    /\ rpc \in {"done", "error"}
    /\ unemployment_df' \in EmploymentTables
    /\ rpc' = "sidebar"
    /\ UNCHANGED <<climate_raw, year_bounds, year_range, filtered_unemployment,
                   filtered_climate, cards>>
    /\ UNCHANGED <<memoVars, lottieVars, quizVars>>

DataNext ==
    \/ Sidebar
    \/ Slider
    \/ Filter
    \/ Cards
    \/ Upload

CardsNext ==
    \/ Filter
    \/ Cards

----------------------------------------------------------------------------
(* The quiz of one session's script run *)

QuizIdle ==
    /\ qpc = "quiz"
    /\ choice = NotShown.choice
    /\ shown = NotShown
    /\ prevShown = NotShown

\* line 148-204: the radios are read, the outcome computed and shown
Quiz ==
    /\ qpc = "quiz"
    /\ shown' = Outcome(choice)
    /\ prevShown' = shown
    /\ qpc' = "done"
    /\ UNCHANGED choice
    /\ UNCHANGED <<memoVars, lottieVars, dataVars>>

\* the user picks radio options: the script runs again
Pick ==
    /\ qpc = "done"
    /\ choice' \in Choices
    /\ qpc' = "quiz"
    /\ UNCHANGED <<shown, prevShown>>
    /\ UNCHANGED <<memoVars, lottieVars, dataVars>>

QuizNext ==
    \/ Quiz
    \/ Pick

----------------------------------------------------------------------------
(* Specifications *)

\* two sessions share memos.json
Init ==
    /\ live = Sessions
    /\ MemoIdle /\ LottieIdle /\ DataIdle /\ QuizIdle

Spec == Init /\ [][MemoNext]_vars

\* one session, no concurrent writer
InitSolo ==
    /\ live = {"s1"}
    /\ MemoIdle /\ LottieIdle /\ DataIdle /\ QuizIdle

SpecSolo == InitSolo /\ [][MemoNext]_vars

\* load_lottieurl called for the three animations, run after run
SpecLottie == Init /\ [][LottieNext]_vars

\* the quiz, from every first selection of the radios
InitQuiz ==
    /\ live = Sessions
    /\ MemoIdle /\ LottieIdle /\ DataIdle
    /\ qpc = "quiz"
    /\ choice \in Choices
    /\ shown = NotShown
    /\ prevShown = NotShown

SpecQuiz == InitQuiz /\ [][QuizNext]_vars

\* the data part, for every cached climate table and every upload
InitData ==
    /\ live = Sessions
    /\ MemoIdle /\ LottieIdle /\ QuizIdle
    /\ rpc = "sidebar"
    /\ climate_raw \in ClimateTables
    /\ unemployment_df \in EmploymentTables
    /\ year_bounds = <<FallbackMin, FallbackMax>>
    /\ year_range = <<FallbackMin, FallbackMax>>
    /\ filtered_unemployment = <<>>
    /\ filtered_climate = <<>>
    /\ cards = NoCards

SpecData == InitData /\ [][DataNext]_vars

\* line 119-133 applied to any tables and any selected interval
InitCards ==
    /\ live = Sessions
    /\ MemoIdle /\ LottieIdle /\ QuizIdle
    /\ rpc = "filter"
    /\ climate_raw \in ClimateTables
    /\ unemployment_df \in EmploymentTables
    /\ year_bounds = <<FallbackMin, FallbackMax>>
    /\ year_range \in Intervals(year_bounds)
    /\ filtered_unemployment = <<>>
    /\ filtered_climate = <<>>
    /\ cards = NoCards

SpecCards == InitCards /\ [][CardsNext]_vars

----------------------------------------------------------------------------
(* Properties of the memo store *)

Reverse(q) == [i \in 1..Len(q) |-> q[Len(q) + 1 - i]]

RecordsOf(q) == {q[i] : i \in 1..Len(q)}

Stored == load_memos(file)

Finished(s) == pc[s] \in {"render", "idle"}

\* s and t each submitted a valid memo, both had loaded the same list before
\* either began to save, both saves have finished, and t's finished last
Raced(s, t) ==
    /\ s # t
    /\ racing[s] /\ racing[t]
    /\ Finished(s) /\ Finished(t)
    /\ lastClose = t
    /\ all_memos[s] # <<>> /\ all_memos[t] # <<>>
    /\ Tail(all_memos[s]) = Tail(all_memos[t])

\* the file holds the prior records behind t's record, and not s's
LastWriterWon(s, t) ==
    /\ Stored.ok
    /\ Stored.val = <<Head(all_memos[t])>> \o Tail(all_memos[s])
    /\ Head(all_memos[s]) \notin RecordsOf(Stored.val)

\* C1: when two sessions each submit a valid memo and both run load_memos
\* before either runs save_memos, both submissions complete and the file
\* afterwards holds exactly the prior records with the record of the session
\* that saved last in front; the other session's record is absent (last
\* writer wins).
C1_LastWriterWins ==
    \A s \in live, t \in live : Raced(s, t) => LastWriterWon(s, t)

\* What does hold: the last writer wins when the two saves ran one after the
\* other, that is when neither file was open for writing while the other was.
LastWriterWinsInTurn ==
    \A s \in live, t \in live :
        (Raced(s, t) /\ ~torn[s] /\ ~torn[t]) => LastWriterWon(s, t)

\* a finished race, the saves in turn, over a non-empty prior list
RacedInTurn ==
    \E s \in live, t \in live :
        /\ Raced(s, t) /\ ~torn[s] /\ ~torn[t]
        /\ Len(all_memos[t]) = 2
        /\ Len(Dump(all_memos[t])) < Len(Dump(all_memos[s]))

\* C10: a load_memos issued by another session while save_memos is rewriting
\* the file returns the complete list from before the save or the complete
\* list being saved, never an error, an empty or a partial list.
C10_AtomicForReaders ==
    \A w \in live, r \in live :
        (r # w /\ pc[w] = "write" /\ pc[r] = "render") =>
            /\ Stored.ok
            /\ Stored.val \in {load_memos(before[w]).val, all_memos[w]}

\* C2: with a single session and the file missing at the start, whenever no
\* save is under way load_memos returns the records submitted so far, newest
\* first, each as it was built; for the missing file that is the empty list.
C2_NewestFirst ==
    \A s \in live :
        pc[s] \notin {"open", "write"} =>
            /\ Stored.ok
            /\ Stored.val = Reverse(submitted)
            /\ Len(Stored.val) = now - 1

\* two submissions are stored and the session is at rest
C2_Witness ==
    /\ pc["s1"] = "idle"
    /\ Len(submitted) = 2
    /\ Len(Stored.val) = 2
    /\ submitted[1].name # submitted[2].name

\* C3: a submission is persisted iff name and memo are both non-empty
\* (whitespace counts): the handler has then put its record in front of the
\* list that was stored; with an empty name or memo it never reaches the
\* save and the file is as it was.
C3_PersistedIffNonEmpty ==
    \A s \in live :
        /\ pc[s] \in {"load", "open", "write"} =>
              (Len(input[s].name) > 0 /\ Len(input[s].memo) > 0)
        /\ (input[s].clicked /\ pc[s] = "render") =>
              IF Len(input[s].name) > 0 /\ Len(input[s].memo) > 0
              THEN /\ Stored.ok
                   /\ Len(Stored.val) = Len(load_memos(atClick[s]).val) + 1
                   /\ Tail(Stored.val) = load_memos(atClick[s]).val
                   /\ Head(Stored.val).name = input[s].name
                   /\ Head(Stored.val).memo = input[s].memo
                   /\ Head(Stored.val).color = input[s].color
              ELSE file = atClick[s]

\* a whitespace-only name has been persisted
C3_Witness ==
    /\ pc["s1"] = "render"
    /\ input["s1"].clicked
    /\ input["s1"].name = <<" ">>
    /\ Stored.ok /\ Stored.val # <<>>
    /\ Head(Stored.val).name = <<" ">>

----------------------------------------------------------------------------
(* Properties of load_lottieurl *)

IsGet(e) == e # "sleep"

Gets == SelectSeq(events, IsGet)

\* C4 as stated: at most 3 attempts, none after the first that got HTTP 200,
\* whose body is returned, and None exactly when no attempt got HTTP 200.
C4_NoneIffNo200 ==
    /\ Len(Gets) <= 3
    /\ \A i \in 1..Len(events) : events[i] \in {"200json", "200bad"} => i = Len(events)
    /\ lpc = "ret" =>
          (lottie[url] = "None" <=> \A i \in 1..Len(events) : events[i] \notin {"200json", "200bad"})

\* C4 amended: at most 3 attempts, none after the first that got HTTP 200 with
\* a body that parses, which is returned; None exactly when none of the 3
\* attempts did.
C4_NoneIffNoParsed200 ==
    /\ Len(Gets) <= 3
    /\ \A i \in 1..Len(events) : events[i] = "200json" => i = Len(events)
    /\ lpc \in {"call", "get", "sleep", "ret", "hit"}
    /\ lpc = "ret" =>
          /\ lottie[url] \in {"None", "json"}
          /\ lottie[url] = "None" <=> \A i \in 1..Len(events) : events[i] # "200json"
          /\ lottie[url] = "json" <=> events[Len(events)] = "200json"
          /\ lottie[url] = "None" => Len(Gets) = 3
          /\ cache[url] = lottie[url]

\* None returned after three attempts of which one got HTTP 200 with a body
\* that does not parse, one another status and one a request exception
C4_Witness ==
    /\ lpc = "ret"
    /\ lottie[url] = "None"
    /\ \E i \in 1..Len(events) : events[i] = "200bad"
    /\ \E i \in 1..Len(events) : events[i] = "404"
    /\ \E i \in 1..Len(events) : events[i] = "exc"

\* C8: every failed attempt that is followed by another attempt is separated
\* from it by the backoff wait, whatever the failure.
C8_BackoffBetweenAttempts ==
    \A i \in 1..(Len(events) - 1) :
        (IsGet(events[i]) /\ events[i] # "200json") => events[i + 1] = "sleep"

----------------------------------------------------------------------------
(* Properties of the quiz *)

AllGreen ==
    [edu |-> "carbon_ai_modelling", activity |-> "renewable_policy_debate_club",
     career |-> "energy_it_startup"]

\* C5 as stated: the all-green choice scores 50 + 15 + 20 + 15 = 100 with a
\* CO2 delta of -45 and tier Top.
C5_AllGreenIs100 ==
    (shown.rendered /\ shown.choice = AllGreen) =>
        (shown.score = 100 /\ shown.co2 = -45 /\ shown.tier = "Top")

\* C5 amended: the all-green choice scores 50 + 25 + 15 + 20 = 110 with a CO2
\* delta of -35 and tier Top; in general the score is 50 plus the chosen
\* options' contributions and the CO2 delta is 0 plus theirs.
C5_ScoreIsBasePlusAxes ==
    shown.rendered =>
        LET c == shown.choice IN
        /\ shown.score = 50 + (IF c.edu = "carbon_ai_modelling" THEN 25 ELSE 5)
                            + (IF c.activity = "renewable_policy_debate_club" THEN 15 ELSE 5)
                            + (IF c.career = "energy_it_startup" THEN 20 ELSE 10)
        /\ shown.co2 = 0 + (IF c.edu = "carbon_ai_modelling" THEN -15 ELSE 5)
                         + (IF c.activity = "renewable_policy_debate_club" THEN -10 ELSE 0)
                         + (IF c.career = "energy_it_startup" THEN -10 ELSE 5)
        /\ c = AllGreen => (shown.score = 110 /\ shown.co2 = -35 /\ shown.tier = "Top")

\* the outcome of the all-green choice is on the page
C5_Witness == shown.rendered /\ shown.choice = AllGreen /\ shown.score = 110

Rank(tier) == CASE tier = "NeedsGrowth" -> 0 [] tier = "Promising" -> 1 [] tier = "Top" -> 2

\* from a to b exactly one axis changed, from its lower-scoring option to its
\* higher-scoring one
OneAxisUp(a, b) ==
    \/ /\ a.edu = "combustion_engine_research" /\ b.edu = "carbon_ai_modelling"
       /\ a.activity = b.activity /\ a.career = b.career
    \/ /\ a.activity = "classic_literature_club" /\ b.activity = "renewable_policy_debate_club"
       /\ a.edu = b.edu /\ a.career = b.career
    \/ /\ a.career = "oil_refiner" /\ b.career = "energy_it_startup"
       /\ a.edu = b.edu /\ a.activity = b.activity

\* C6: switching one axis from its lower-scoring to its higher-scoring option
\* with the other two fixed never lowers the tier, in the order
\* NeedsGrowth < Promising < Top with cut points 75 and 100.
C6_TierMonotonic ==
    /\ shown.rendered =>
          /\ shown.tier = "Top" <=> shown.score >= 100
          /\ shown.tier = "Promising" <=> (shown.score >= 75 /\ shown.score < 100)
          /\ shown.tier = "NeedsGrowth" <=> shown.score < 75
    /\ (prevShown.rendered /\ shown.rendered /\ OneAxisUp(prevShown.choice, shown.choice)) =>
          /\ prevShown.score < shown.score
          /\ Rank(prevShown.tier) <= Rank(shown.tier)

\* one axis was raised between two renders and the tier rose with it
C6_Witness ==
    /\ prevShown.rendered /\ shown.rendered
    /\ OneAxisUp(prevShown.choice, shown.choice)
    /\ Rank(prevShown.tier) < Rank(shown.tier)

----------------------------------------------------------------------------
(* Properties of the data part *)

\* C7: on every render, also with a non-empty uploaded table, the slider's
\* bounds are the least and greatest year of the loaded series, the render
\* goes on without error, and the filtered tables hold exactly the rows whose
\* year lies in the selected interval.
C7_RenderGoesOn ==
    /\ rpc # "error"
    /\ rpc \in {"slider", "filter", "cards", "done"} =>
          LET all == YearsOf(SampleYears) \cup YearsOf(unemployment_df) IN
          year_bounds = <<SetMin(all), SetMax(all)>>
    /\ rpc \in {"cards", "done"} =>
          /\ YearsOf(filtered_unemployment) =
                {y \in YearsOf(unemployment_df) : year_range[1] <= y /\ y <= year_range[2]}
          /\ YearsOf(filtered_climate) =
                {y \in YearsOf(climate_raw) : year_range[1] <= y /\ y <= year_range[2]}

Last(t) == t[Len(t)]
SecondLast(t) == t[Len(t) - 1]

====
